---- MODULE Spec2Model ----
(***************************************************************************)
(* bin_preproc.py: conversion of a Binance CSV export into the three DaLI  *)
(* ledgers (in, out, intra).                                               *)
(*                                                                         *)
(* Representation of the data.                                             *)
(*   - A free-text string (Coin, Remark, notes, asset) is the sequence of  *)
(*     its words, the words being separated by single blanks: "OLD to NEW" *)
(*     is <<"OLD", "to", "NEW">> and "" is <<>>.                           *)
(*   - Operation is an enumerated string.                                  *)
(*   - Change is the text of the amount column: [num, val], num telling    *)
(*     whether float() accepts the text and val the number it denotes.     *)
(*     Amounts are integers.                                               *)
(*   - UTC_Time is a well-formed "%Y-%m-%d %H:%M:%S" text, <<day, second>>.*)
(*   - str(x) of a number x is <<x>>; the literal "" is <<>>.              *)
(*   - An exception is the field raised of the result of an operator.      *)
(* The unique_id of an emitted record (uuid4) is left out.                 *)
(***************************************************************************)
EXTENDS Integers, Sequences, FiniteSets, TLC

VARIABLES
    input,                  \* the rows read_binance_csv returned
    records,                \* main's variable records
    swap_records,           \* main's variable swap_records
    distribution_records,   \* main's variable distribution_records
    rebranding_intra_txs,   \* the result of process_rebranding_pairs
    grouped_transactions,   \* the insertion-ordered dict, as a sequence of items
    next_group,             \* position of the for loop over the dict's items
    all_in_transactions,
    all_out_transactions,
    all_intra_transactions,
    files,                  \* the ledgers written so far, by file name
    pc                      \* main's position

vars == <<input, records, swap_records, distribution_records,
          rebranding_intra_txs, grouped_transactions, next_group,
          all_in_transactions, all_out_transactions, all_intra_transactions,
          files, pc>>

\* Largest number of rows of an input file.
MaxLen == 4

SeqUpTo(S, n) == UNION {[1..k -> S] : k \in 0..n}

Abs(x) == IF x < 0 THEN -x ELSE x

RECURSIVE Concat(_)
\* list.extend over a sequence of lists
Concat(ss) == IF ss = <<>> THEN <<>> ELSE Head(ss) \o Concat(Tail(ss))

-----------------------------------------------------------------------------
(* Rows of the export *)

Row(t, op, coin, chg, remark) ==
    [UTC_Time |-> t, Operation |-> op, Coin |-> coin, Change |-> chg,
     Remark |-> remark]

Num(v) == [num |-> TRUE, val |-> v]
NonNumeric == [num |-> FALSE, val |-> 0]

\* float(text) raises ValueError
FloatRaises(chg) == ~chg.num
\* float(text)
Float(chg) == chg.val

\* str(number)
Str(x) == <<x>>
\* the number a str(number) denotes
NumOf(s) == s[1]

\* datetime.strptime(timestamp, "%Y-%m-%d %H:%M:%S").strftime("%Y-%m-%dT%H:%M:%SZ")
IsoTimestamp(timestamp) == <<timestamp[1], "T", timestamp[2], "Z">>

\* " to " in remark: a word "to" with a blank on both sides
HasSeparator(remark) == \E i \in 2..(Len(remark) - 1) : remark[i] = "to"

RECURSIVE Split(_)
\* remark.split(" to "): left to right, the occurrences not overlapping
Split(remark) ==
    IF ~HasSeparator(remark) THEN <<remark>>
    ELSE LET i == CHOOSE k \in 2..(Len(remark) - 1) :
                    /\ remark[k] = "to"
                    /\ \A j \in 2..(k - 1) : remark[j] # "to"
         IN <<SubSeq(remark, 1, i - 1)>>
                \o Split(SubSeq(remark, i + 1, Len(remark)))

TokenSwap == "Token Swap - Redenomination/Rebranding"

IsSwap(rec) == rec.Operation = TokenSwap
IsEligibleDistribution(rec) ==
    rec.Operation = "Distribution" /\ HasSeparator(rec.Remark)

-----------------------------------------------------------------------------
(* process_rebranding_pairs *)

RebrandingTransfer(swap_rec, from_asset, to_asset) ==
    [timestamp |-> IsoTimestamp(swap_rec.UTC_Time),
     asset |-> from_asset,
     from_exchange |-> "exchange",
     to_exchange |-> "exchange",
     crypto_sent |-> Str(Abs(Float(swap_rec.Change))),
     crypto_received |-> Str(Abs(Float(swap_rec.Change))),
     notes |-> <<"Rebranding", "from">> \o from_asset \o <<"to">> \o to_asset]

\* The inner loop over swap_records for one distribution row, from state st.
MatchSwaps(st, swaps, from_asset, to_asset) ==
    LET loop[i \in 0..Len(swaps)] ==
            IF i = 0 THEN st
            ELSE LET p == loop[i - 1]
                     swap_rec == swaps[i]
                 IN IF p.raised THEN p
                    ELSE IF swap_rec.Coin # from_asset THEN p
                    ELSE IF FloatRaises(swap_rec.Change)
                         THEN [raised |-> TRUE, intra |-> <<>>]
                    ELSE [p EXCEPT !.intra = Append(@,
                            RebrandingTransfer(swap_rec, from_asset, to_asset))]
    IN loop[Len(swaps)]

process_rebranding_pairs(swaps, dists) ==
    LET loop[i \in 0..Len(dists)] ==
            IF i = 0 THEN [raised |-> FALSE, intra |-> <<>>]
            ELSE LET p == loop[i - 1]
                     remark == dists[i].Remark
                 IN IF p.raised THEN p
                    ELSE IF ~HasSeparator(remark) THEN p
                    \* from_asset, to_asset = ...: ValueError unless two parts
                    ELSE IF Len(Split(remark)) # 2
                         THEN [raised |-> TRUE, intra |-> <<>>]
                    ELSE MatchSwaps(p, swaps, Split(remark)[1], Split(remark)[2])
    IN loop[Len(dists)]

\* A filter that runs only when both kinds of rows were found.
FilterRecordsWhenPaired(recs, swaps, dists) ==
    IF swaps # <<>> /\ dists # <<>>
    THEN SelectSeq(recs, LAMBDA rec : ~IsSwap(rec) /\ ~IsEligibleDistribution(rec))
    ELSE recs

\* main's filter of the rows of the rebranding pattern
FilterRecords(recs, swaps, dists) ==
    IF swaps # <<>> \/ dists # <<>>
    THEN SelectSeq(recs, LAMBDA rec : ~IsSwap(rec) /\ ~IsEligibleDistribution(rec))
    ELSE recs

-----------------------------------------------------------------------------
(* group_transactions_by_time *)

\* index of the item of key timestamp in the dict d, 0 when absent
KeyIndex(d, timestamp) ==
    IF \E k \in 1..Len(d) : d[k].timestamp = timestamp
    THEN CHOOSE k \in 1..Len(d) : d[k].timestamp = timestamp
    ELSE 0

\* A grouping that puts a new timestamp ahead of the ones already seen.
GroupNewestFirst(recs) ==
    LET loop[i \in 0..Len(recs)] ==
            IF i = 0 THEN <<>>
            ELSE LET d == loop[i - 1]
                     k == KeyIndex(d, recs[i].UTC_Time)
                 IN IF k = 0
                    THEN <<[timestamp |-> recs[i].UTC_Time,
                            group |-> <<recs[i]>>]>> \o d
                    ELSE [d EXCEPT ![k].group = Append(@, recs[i])]
    IN loop[Len(recs)]

group_transactions_by_time(recs) ==
    LET loop[i \in 0..Len(recs)] ==
            IF i = 0 THEN <<>>
            ELSE LET d == loop[i - 1]
                     k == KeyIndex(d, recs[i].UTC_Time)
                 IN IF k = 0
                    THEN Append(d, [timestamp |-> recs[i].UTC_Time,
                                    group |-> <<recs[i]>>])
                    ELSE [d EXCEPT ![k].group = Append(@, recs[i])]
    IN loop[Len(recs)]

-----------------------------------------------------------------------------
(* process_transaction_group *)

\* The exception leaving process_transaction_group: its local lists are lost.
Raised == [raised |-> TRUE, in |-> <<>>, out |-> <<>>, intra |-> <<>>]

OfOperation(group, op) == SelectSeq(group, LAMBDA rec : rec.Operation = op)

operation_types(group) == {group[i].Operation : i \in 1..Len(group)}

ConvertIn(rec, iso_timestamp) ==
    [timestamp |-> iso_timestamp, asset |-> rec.Coin,
     transaction_type |-> "BUY",
     crypto_in |-> Str(Float(rec.Change)), crypto_fee |-> Str(0),
     fiat_in_no_fee |-> <<>>, fiat_in_with_fee |-> <<>>, fiat_fee |-> <<>>,
     notes |-> <<"Converted", "to">> \o rec.Coin]

ConvertOut(rec, iso_timestamp) ==
    [timestamp |-> iso_timestamp, asset |-> rec.Coin,
     transaction_type |-> "SELL",
     crypto_out_no_fee |-> Str(Abs(Float(rec.Change))), crypto_fee |-> Str(0),
     crypto_out_with_fee |-> Str(Abs(Float(rec.Change))),
     fiat_out_no_fee |-> <<>>, fiat_fee |-> <<>>, fiat_ticker |-> <<>>,
     notes |-> <<"Converted">> \o rec.Coin]

\* Case: Binance Convert, each row on its own
ConvertCase(st, group, iso_timestamp) ==
    LET convert_recs == OfOperation(group, "Binance Convert")
        loop[i \in 0..Len(convert_recs)] ==
            IF i = 0 THEN st
            ELSE LET p == loop[i - 1]
                     rec == convert_recs[i]
                 IN IF p.raised THEN p
                    ELSE IF FloatRaises(rec.Change) THEN Raised
                    ELSE IF Float(rec.Change) > 0
                         THEN [p EXCEPT !.in = Append(@, ConvertIn(rec, iso_timestamp))]
                         ELSE [p EXCEPT !.out = Append(@, ConvertOut(rec, iso_timestamp))]
    IN loop[Len(convert_recs)]

DepositTransfer(rec, iso_timestamp) ==
    [timestamp |-> iso_timestamp, asset |-> rec.Coin,
     from_exchange |-> "External", to_exchange |-> "exchange",
     crypto_sent |-> Str(Float(rec.Change)),
     crypto_received |-> Str(Float(rec.Change)),
     notes |-> <<"Deposit", "of">> \o rec.Coin \o
               (IF \E k \in 1..Len(rec.Remark) : rec.Remark[k] = "Mining"
                THEN <<"(Mining)">> ELSE <<>>)]

\* Case: Deposit
DepositCase(st, group, iso_timestamp) ==
    LET deposit_recs == OfOperation(group, "Deposit")
        loop[i \in 0..Len(deposit_recs)] ==
            IF i = 0 THEN st
            ELSE LET p == loop[i - 1]
                     rec == deposit_recs[i]
                 IN IF p.raised THEN p
                    ELSE IF FloatRaises(rec.Change) THEN Raised
                    ELSE IF Float(rec.Change) <= 0 THEN p
                    ELSE [p EXCEPT !.intra = Append(@, DepositTransfer(rec, iso_timestamp))]
    IN loop[Len(deposit_recs)]

WithdrawOut(rec, iso_timestamp) ==
    [timestamp |-> iso_timestamp, asset |-> rec.Coin,
     transaction_type |-> "SELL",
     crypto_out_no_fee |-> Str(Abs(Float(rec.Change))), crypto_fee |-> Str(0),
     crypto_out_with_fee |-> Str(Abs(Float(rec.Change))),
     fiat_out_no_fee |-> <<>>, fiat_fee |-> <<>>, fiat_ticker |-> <<"USD">>,
     notes |-> rec.Remark]

\* Case: Withdraw
WithdrawCase(st, group, iso_timestamp) ==
    LET withdraw_recs == OfOperation(group, "Withdraw")
        loop[i \in 0..Len(withdraw_recs)] ==
            IF i = 0 THEN st
            ELSE LET p == loop[i - 1]
                     rec == withdraw_recs[i]
                 IN IF p.raised THEN p
                    ELSE IF FloatRaises(rec.Change) THEN Raised
                    ELSE [p EXCEPT !.out = Append(@, WithdrawOut(rec, iso_timestamp))]
    IN loop[Len(withdraw_recs)]

\* [rec for rec in group if Operation == "Transaction Fee" and float(Change) < 0]
fee_recs(group) ==
    LET fees == OfOperation(group, "Transaction Fee")
    IN IF \E i \in 1..Len(fees) : FloatRaises(fees[i].Change)
       THEN [raised |-> TRUE, recs |-> <<>>]
       ELSE [raised |-> FALSE,
             recs |-> SelectSeq(fees, LAMBDA rec : Float(rec.Change) < 0)]

\* The loop over buy_recs: the bought asset and the sum of the amounts of the
\* rows of that asset. "not bought_asset" is true of None and of "", and the
\* asset is compared only after it was assigned: None is <<>> here.
Bought(buy_recs) ==
    LET loop[i \in 0..Len(buy_recs)] ==
            IF i = 0 THEN [raised |-> FALSE, asset |-> <<>>, amount |-> 0]
            ELSE LET p == loop[i - 1]
                     rec == buy_recs[i]
                     bought_asset == IF p.asset = <<>> THEN rec.Coin ELSE p.asset
                 IN IF p.raised THEN p
                    ELSE IF rec.Coin # bought_asset
                         THEN [p EXCEPT !.asset = bought_asset]
                    ELSE IF FloatRaises(rec.Change)
                         THEN [raised |-> TRUE, asset |-> <<>>, amount |-> 0]
                    ELSE [p EXCEPT !.asset = bought_asset,
                                   !.amount = @ + Float(rec.Change)]
    IN loop[Len(buy_recs)]

\* The loop over sold_recs: the sold asset and the sum of abs(amount) of the
\* rows of that asset; None is <<>> as in Bought.
Sold(sold_recs) ==
    LET loop[i \in 0..Len(sold_recs)] ==
            IF i = 0 THEN [raised |-> FALSE, asset |-> <<>>, amount |-> 0]
            ELSE LET p == loop[i - 1]
                     rec == sold_recs[i]
                     sold_asset == IF p.asset = <<>> THEN rec.Coin ELSE p.asset
                 IN IF p.raised THEN p
                    ELSE IF rec.Coin # sold_asset
                         THEN [p EXCEPT !.asset = sold_asset]
                    ELSE IF FloatRaises(rec.Change)
                         THEN [raised |-> TRUE, asset |-> <<>>, amount |-> 0]
                    ELSE [p EXCEPT !.asset = sold_asset,
                                   !.amount = @ + Abs(Float(rec.Change))]
    IN loop[Len(sold_recs)]

\* A fee sum that does not compare the asset.
FeeAmountAnyAsset(fees, asset) ==
    LET loop[i \in 0..Len(fees)] ==
            IF i = 0 THEN 0
            ELSE loop[i - 1] + Abs(Float(fees[i].Change))
    IN loop[Len(fees)]

\* for rec in fee_recs: if rec["Coin"] == asset: fee_amount += abs(float(...))
FeeAmount(fees, asset) ==
    LET loop[i \in 0..Len(fees)] ==
            IF i = 0 THEN 0
            ELSE IF fees[i].Coin = asset
                 THEN loop[i - 1] + Abs(Float(fees[i].Change))
                 ELSE loop[i - 1]
    IN loop[Len(fees)]

\* for rec in spend_recs: spent_amount += abs(float(rec["Change"]))
SpentAmount(spend_recs) ==
    LET loop[i \in 0..Len(spend_recs)] ==
            IF i = 0 THEN [raised |-> FALSE, amount |-> 0]
            ELSE LET p == loop[i - 1]
                 IN IF p.raised THEN p
                    ELSE IF FloatRaises(spend_recs[i].Change)
                         THEN [raised |-> TRUE, amount |-> 0]
                    ELSE [p EXCEPT !.amount = @ + Abs(Float(spend_recs[i].Change))]
    IN loop[Len(spend_recs)]

BuyIn(iso_timestamp, bought_asset, adjusted_bought, fee_amount, spent_amount) ==
    [timestamp |-> iso_timestamp, asset |-> bought_asset,
     transaction_type |-> "BUY",
     crypto_in |-> Str(adjusted_bought), crypto_fee |-> Str(fee_amount),
     fiat_in_no_fee |-> Str(spent_amount),
     fiat_in_with_fee |-> Str(spent_amount),
     fiat_fee |-> <<>>, fiat_ticker |-> <<"USDT">>,
     notes |-> <<"Bought">> \o bought_asset \o <<"for", "USDT">>]

\* if "Transaction Buy" in operation_types: ...
BuyCase(st, group, iso_timestamp) ==
    LET buy_recs == OfOperation(group, "Transaction Buy")
        spend_recs == OfOperation(group, "Transaction Spend")
        fees == fee_recs(group)
        bought == Bought(buy_recs)
        fee_amount == FeeAmount(fees.recs, bought.asset)
        spent == SpentAmount(spend_recs)
        adjusted_bought == bought.amount - fee_amount
    IN IF st.raised THEN st
       ELSE IF fees.raised \/ bought.raised \/ spent.raised THEN Raised
       ELSE [st EXCEPT !.in = Append(@,
                BuyIn(iso_timestamp, bought.asset, adjusted_bought,
                      fee_amount, spent.amount))]

\* A revenue loop that keeps the asset of the first Revenue row.
RevenueFirstAsset(revenue_recs) ==
    LET loop[i \in 0..Len(revenue_recs)] ==
            IF i = 0 THEN [raised |-> FALSE, amount |-> 0, asset |-> <<"USDT">>]
            ELSE LET p == loop[i - 1]
                 IN IF p.raised THEN p
                    ELSE IF FloatRaises(revenue_recs[i].Change)
                         THEN [raised |-> TRUE, amount |-> 0, asset |-> <<>>]
                    ELSE [p EXCEPT !.amount = @ + Float(revenue_recs[i].Change),
                                   !.asset = IF i = 1 THEN revenue_recs[i].Coin ELSE @]
    IN loop[Len(revenue_recs)]

\* for rec in revenue_recs: revenue_amount += float(...); revenue_asset = Coin
Revenue(revenue_recs) ==
    LET loop[i \in 0..Len(revenue_recs)] ==
            IF i = 0 THEN [raised |-> FALSE, amount |-> 0, asset |-> <<"USDT">>]
            ELSE LET p == loop[i - 1]
                 IN IF p.raised THEN p
                    ELSE IF FloatRaises(revenue_recs[i].Change)
                         THEN [raised |-> TRUE, amount |-> 0, asset |-> <<>>]
                    ELSE [p EXCEPT !.amount = @ + Float(revenue_recs[i].Change),
                                   !.asset = revenue_recs[i].Coin]
    IN loop[Len(revenue_recs)]

SoldOut(iso_timestamp, sold_asset, sold_amount, adjusted_revenue, fee_amount, revenue_asset) ==
    [timestamp |-> iso_timestamp, asset |-> sold_asset,
     transaction_type |-> "SELL",
     crypto_out_no_fee |-> Str(sold_amount), crypto_fee |-> Str(0),
     crypto_out_with_fee |-> Str(sold_amount),
     fiat_out_no_fee |-> Str(adjusted_revenue), fiat_fee |-> Str(fee_amount),
     fiat_ticker |-> revenue_asset,
     notes |-> <<"Sold">> \o sold_asset \o <<"for">> \o revenue_asset]

\* if "Transaction Sold" in operation_types: ...
SoldCase(st, group, iso_timestamp) ==
    LET sold_recs == OfOperation(group, "Transaction Sold")
        revenue_recs == OfOperation(group, "Transaction Revenue")
        fees == fee_recs(group)
        sold == Sold(sold_recs)
        revenue == Revenue(revenue_recs)
        fee_amount == FeeAmount(fees.recs, revenue.asset)
        adjusted_revenue == revenue.amount - fee_amount
    IN IF st.raised THEN st
       ELSE IF fees.raised \/ sold.raised \/ revenue.raised THEN Raised
       ELSE [st EXCEPT !.out = Append(@,
                SoldOut(iso_timestamp, sold.asset, sold.amount,
                        adjusted_revenue, fee_amount, revenue.asset))]

\* A Buy/Sell case that builds fee_recs before it looks at the kinds present.
TradeCaseFeesFirst(st, group, iso_timestamp) ==
    LET types == operation_types(group)
        afterBuy == IF "Transaction Buy" \in types
                    THEN BuyCase(st, group, iso_timestamp) ELSE st
    IN IF st.raised THEN st
       ELSE IF fee_recs(group).raised THEN Raised
       ELSE IF "Transaction Sold" \in types
            THEN SoldCase(afterBuy, group, iso_timestamp) ELSE afterBuy

\* Case: Transaction Buy/Sell
TradeCase(st, group, iso_timestamp) ==
    LET types == operation_types(group)
        afterBuy == IF "Transaction Buy" \in types
                    THEN BuyCase(st, group, iso_timestamp) ELSE st
    IN IF "Transaction Buy" \in types \/ "Transaction Sold" \in types
       THEN IF "Transaction Sold" \in types
            THEN SoldCase(afterBuy, group, iso_timestamp) ELSE afterBuy
       ELSE st

process_transaction_group(group) ==
    LET iso_timestamp == IsoTimestamp(group[1].UTC_Time)
        types == operation_types(group)
        s0 == [raised |-> FALSE, in |-> <<>>, out |-> <<>>, intra |-> <<>>]
        s1 == IF "Binance Convert" \in types
              THEN ConvertCase(s0, group, iso_timestamp) ELSE s0
        s2 == IF "Deposit" \in types
              THEN DepositCase(s1, group, iso_timestamp) ELSE s1
        s3 == IF "Withdraw" \in types
              THEN WithdrawCase(s2, group, iso_timestamp) ELSE s2
    IN TradeCase(s3, group, iso_timestamp)

-----------------------------------------------------------------------------
(* write_output_files *)

\* The three ledgers, each the rows of its transactions in order.
write_output_files(in_transactions, out_transactions, intra_transactions) ==
    [f \in {"in_csv_file.csv", "out_csv_file.csv", "intra_csv_file.csv"} |->
        IF f = "in_csv_file.csv" THEN in_transactions
        ELSE IF f = "out_csv_file.csv" THEN out_transactions
        ELSE intra_transactions]

NoFiles == [f \in {} |-> <<>>]

-----------------------------------------------------------------------------
(* main *)

\* Extract token swap and distribution records, process rebranding pairs
ExtractRebranding ==
    /\ pc = "extract"
    /\ LET swaps == SelectSeq(records, IsSwap)
           dists == SelectSeq(records, IsEligibleDistribution)
           res == process_rebranding_pairs(swaps, dists)
       IN /\ swap_records' = swaps
          /\ distribution_records' = dists
          /\ rebranding_intra_txs' = res.intra
          /\ pc' = IF res.raised THEN "aborted" ELSE "filter"
    /\ UNCHANGED <<input, records, grouped_transactions, next_group,
                   all_in_transactions, all_out_transactions,
                   all_intra_transactions, files>>

\* Filter out already processed records
Filter ==
    /\ pc = "filter"
    /\ records' = FilterRecords(records, swap_records, distribution_records)
    /\ pc' = "group"
    /\ UNCHANGED <<input, swap_records, distribution_records,
                   rebranding_intra_txs, grouped_transactions, next_group,
                   all_in_transactions, all_out_transactions,
                   all_intra_transactions, files>>

\* Group transactions by timestamp; the three running lists start
Group ==
    /\ pc = "group"
    /\ grouped_transactions' = group_transactions_by_time(records)
    /\ next_group' = 1
    /\ all_in_transactions' = <<>>
    /\ all_out_transactions' = <<>>
    /\ all_intra_transactions' = rebranding_intra_txs
    /\ pc' = "loop"
    /\ UNCHANGED <<input, records, swap_records, distribution_records,
                   rebranding_intra_txs, files>>

\* An iteration that skips a group whose classification raised.
ProcessGroupSkippingErrors ==
    /\ pc = "loop"
    /\ next_group <= Len(grouped_transactions)
    /\ LET res == process_transaction_group(grouped_transactions[next_group].group)
       IN /\ all_in_transactions' = all_in_transactions \o res.in
          /\ all_out_transactions' = all_out_transactions \o res.out
          /\ all_intra_transactions' = all_intra_transactions \o res.intra
          /\ next_group' = next_group + 1
          /\ pc' = "loop"
    /\ UNCHANGED <<input, records, swap_records, distribution_records,
                   rebranding_intra_txs, grouped_transactions, files>>

\* One iteration of the loop over grouped_transactions.items()
ProcessGroup ==
    /\ pc = "loop"
    /\ next_group <= Len(grouped_transactions)
    /\ LET res == process_transaction_group(grouped_transactions[next_group].group)
       IN IF res.raised
          THEN /\ pc' = "aborted"
               /\ UNCHANGED <<next_group, all_in_transactions,
                              all_out_transactions, all_intra_transactions>>
          ELSE /\ all_in_transactions' = all_in_transactions \o res.in
               /\ all_out_transactions' = all_out_transactions \o res.out
               /\ all_intra_transactions' = all_intra_transactions \o res.intra
               /\ next_group' = next_group + 1
               /\ pc' = "loop"
    /\ UNCHANGED <<input, records, swap_records, distribution_records,
                   rebranding_intra_txs, grouped_transactions, files>>

\* Write output files, after the loop
WriteOutput ==
    /\ pc = "loop"
    /\ next_group > Len(grouped_transactions)
    /\ files' = write_output_files(all_in_transactions, all_out_transactions,
                                   all_intra_transactions)
    /\ pc' = "done"
    /\ UNCHANGED <<input, records, swap_records, distribution_records,
                   rebranding_intra_txs, grouped_transactions, next_group,
                   all_in_transactions, all_out_transactions,
                   all_intra_transactions>>

Next == ExtractRebranding \/ Filter \/ Group \/ ProcessGroup \/ WriteOutput

-----------------------------------------------------------------------------
(* Input files *)

T1 == <<1, 1>>
T2 == <<1, 2>>

\* Rows of the rebranding pattern, deposits, withdrawals and conversions over
\* two timestamps.
PipelineRows ==
    {Row(T1, TokenSwap, <<"OLD">>, Num(-5), <<>>),
     Row(T2, TokenSwap, <<"OLD">>, Num(-3), <<>>),
     Row(T1, TokenSwap, <<"OLD">>, NonNumeric, <<>>),
     Row(T1, "Distribution", <<"NEW">>, Num(5), <<"OLD", "to", "NEW">>),
     Row(T2, "Distribution", <<"NEW">>, Num(5), <<"OLD", "to", "NEW", "to", "X">>),
     Row(T1, "Distribution", <<"NEW">>, Num(1), <<"Airdrop">>),
     Row(T1, "Deposit", <<"BTC">>, Num(2), <<"Mining">>),
     Row(T2, "Deposit", <<"BTC">>, Num(2), <<>>),
     Row(T2, "Deposit", <<"BTC">>, NonNumeric, <<>>),
     Row(T1, "Withdraw", <<"BTC">>, Num(-1), <<"Withdrawal">>),
     Row(T2, "Binance Convert", <<"ETH">>, Num(4), <<>>),
     Row(T1, "Transaction Fee", <<"BTC">>, NonNumeric, <<>>)}

InitOf(Rows) ==
    /\ input \in SeqUpTo(Rows, MaxLen)
    /\ records = input
    /\ swap_records = <<>>
    /\ distribution_records = <<>>
    /\ rebranding_intra_txs = <<>>
    /\ grouped_transactions = <<>>
    /\ next_group = 1
    /\ all_in_transactions = <<>>
    /\ all_out_transactions = <<>>
    /\ all_intra_transactions = <<>>
    /\ files = NoFiles
    /\ pc = "extract"

Init == InitOf(PipelineRows)

Spec == Init /\ [][Next]_vars

\* Rows of the Transaction Buy pattern, with a conversion beside them.
BuyRows ==
    {Row(T1, "Transaction Buy", <<"ETH">>, Num(3), <<>>),
     Row(T1, "Transaction Buy", <<"BTC">>, Num(2), <<>>),
     Row(T1, "Transaction Buy", <<"ETH">>, Num(-1), <<>>),
     Row(T1, "Transaction Buy", <<"BTC">>, NonNumeric, <<>>),
     Row(T2, "Transaction Buy", <<"ETH">>, Num(3), <<>>),
     Row(T1, "Transaction Fee", <<"ETH">>, Num(-1), <<>>),
     Row(T1, "Transaction Fee", <<"ETH">>, Num(1), <<>>),
     Row(T1, "Transaction Fee", <<"BTC">>, Num(-2), <<>>),
     Row(T1, "Transaction Spend", <<"USDT">>, Num(-4), <<>>),
     Row(T1, "Transaction Spend", <<"EUR">>, Num(2), <<>>),
     Row(T1, "Transaction Spend", <<"USDT">>, NonNumeric, <<>>),
     Row(T1, "Binance Convert", <<"ETH">>, Num(1), <<>>)}

InitBuy == InitOf(BuyRows)

SpecBuy == InitBuy /\ [][Next]_vars

\* Rows of the Transaction Sold pattern, with a Buy row beside them.
SoldRows ==
    {Row(T1, "Transaction Sold", <<"ETH">>, Num(-3), <<>>),
     Row(T1, "Transaction Sold", <<"BTC">>, Num(-2), <<>>),
     Row(T1, "Transaction Sold", <<"ETH">>, Num(1), <<>>),
     Row(T1, "Transaction Sold", <<"BTC">>, NonNumeric, <<>>),
     Row(T2, "Transaction Sold", <<"ETH">>, Num(-3), <<>>),
     Row(T1, "Transaction Revenue", <<"USDT">>, Num(5), <<>>),
     Row(T1, "Transaction Revenue", <<"EUR">>, Num(2), <<>>),
     Row(T1, "Transaction Fee", <<"USDT">>, Num(-1), <<>>),
     Row(T1, "Transaction Fee", <<"EUR">>, Num(-2), <<>>),
     Row(T1, "Transaction Fee", <<"USDT">>, Num(1), <<>>),
     Row(T1, "Transaction Fee", <<"ETH">>, Num(-1), <<>>),
     Row(T1, "Transaction Buy", <<"USDT">>, Num(3), <<>>)}

InitSold == InitOf(SoldRows)

SpecSold == InitSold /\ [][Next]_vars

\* Conversions, and rows of kinds that trigger no pattern on their own.
ConvertRows ==
    {Row(T1, "Binance Convert", <<"XRP">>, Num(-2), <<>>),
     Row(T1, "Binance Convert", <<"ADA">>, Num(1), <<>>),
     Row(T1, "Binance Convert", <<"ADA">>, Num(0), <<>>),
     Row(T1, "Binance Convert", <<"ADA">>, NonNumeric, <<>>),
     Row(T2, "Binance Convert", <<"ADA">>, Num(1), <<>>),
     Row(T1, "Transaction Spend", <<"USDT">>, NonNumeric, <<>>),
     Row(T2, "Transaction Spend", <<"USDT">>, Num(-4), <<>>),
     Row(T1, "Transaction Fee", <<"ETH">>, NonNumeric, <<>>),
     Row(T1, "Transaction Fee", <<"ETH">>, Num(-1), <<>>),
     Row(T1, "Transaction Revenue", <<"USDT">>, NonNumeric, <<>>),
     Row(T1, "Staking Rewards", <<"ETH">>, NonNumeric, <<"to", "ETH", "to">>),
     Row(T1, "Distribution", <<"ETH">>, Num(1), <<"Airdrop">>),
     Row(T1, "Transaction Buy", <<"ETH">>, Num(3), <<>>)}

InitConvert == InitOf(ConvertRows)

SpecConvert == InitConvert /\ [][Next]_vars

-----------------------------------------------------------------------------
(* Properties *)

InFile == "in_csv_file.csv"
OutFile == "out_csv_file.csv"
IntraFile == "intra_csv_file.csv"

Written == DOMAIN files # {}

\* s is a Token-Swap row of the input that no eligible Distribution row names
UnmatchedSwap(s) ==
    /\ IsSwap(s)
    /\ \A j \in 1..Len(input) :
          IsEligibleDistribution(input[j]) => Split(input[j].Remark)[1] # s.Coin

\* the record r is accounted for by a row of the input that is not of the
\* rebranding pattern
FromGroupedRow(r) ==
    \E i \in 1..Len(input) :
        /\ ~IsSwap(input[i])
        /\ ~IsEligibleDistribution(input[i])
        /\ IsoTimestamp(input[i].UTC_Time) = r.timestamp
        /\ input[i].Coin = r.asset

\* no record of the ledger comes from the row s
NoRecordOf(ledger, s) ==
    \A k \in 1..Len(ledger) :
        (ledger[k].timestamp = IsoTimestamp(s.UTC_Time) /\ ledger[k].asset = s.Coin)
            => FromGroupedRow(ledger[k])

\* C1: every Token-Swap row and every Distribution row whose remark contains
\* " to " is removed before grouping, matched or not: no group handed to
\* process_transaction_group holds such a row, and a Token-Swap row that no
\* Distribution row matches has no record in any of the three ledgers.
C1_RebrandingRowsRemoved ==
    /\ pc \in {"loop", "done"} =>
          \A g \in 1..Len(grouped_transactions) :
              \A i \in 1..Len(grouped_transactions[g].group) :
                  /\ ~IsSwap(grouped_transactions[g].group[i])
                  /\ ~IsEligibleDistribution(grouped_transactions[g].group[i])
    /\ Written =>
          \A i \in 1..Len(input) :
              UnmatchedSwap(input[i]) =>
                  /\ NoRecordOf(files[InFile], input[i])
                  /\ NoRecordOf(files[OutFile], input[i])
                  /\ NoRecordOf(files[IntraFile], input[i])

\* An unmatched Token-Swap row in a run that wrote a non-empty intra ledger.
C1_Witness ==
    /\ Written
    /\ \E i \in 1..Len(input) : UnmatchedSwap(input[i])
    /\ files[IntraFile] # <<>>
    /\ Len(grouped_transactions) > 0

\* main is past the rebranding pass, which did not raise
RebrandingDone == pc \in {"filter", "group", "loop", "done"} \/
                  (pc = "aborted" /\ grouped_transactions # <<>>)

\* the rebranding pass raised
RebrandingFailed == pc = "aborted" /\ grouped_transactions = <<>>

\* The transfers of a matcher that uses, for each distribution row, only the
\* first swap row of the old asset.
FirstSwapTransfers(swaps, dists) ==
    Concat([d \in 1..Len(dists) |->
        LET parts == Split(dists[d].Remark)
            matching == {k \in 1..Len(swaps) : swaps[k].Coin = parts[1]}
            first == CHOOSE k \in matching : \A j \in matching : k <= j
        IN IF matching = {} THEN <<>>
           ELSE <<RebrandingTransfer(swaps[first], parts[1], parts[2])>>])

\* C2: each eligible Distribution row yields at most one Transfer, made from
\* the first Token-Swap row in source order whose asset is the old asset, with
\* crypto_sent = crypto_received = abs(amount of that swap row).
C2_FirstSwapRowOnly ==
    RebrandingDone =>
        rebranding_intra_txs =
            FirstSwapTransfers(SelectSeq(input, IsSwap),
                               SelectSeq(input, IsEligibleDistribution))

NonNegative(s) == NumOf(s) >= 0

\* C3: every emitted Acquisition and Disposal reports non-negative crypto
\* quantities (crypto_in, crypto_fee, crypto_out_no_fee, crypto_out_with_fee).
C3_CryptoQuantitiesNonNegative ==
    /\ \A k \in 1..Len(all_in_transactions) :
          /\ NonNegative(all_in_transactions[k].crypto_in)
          /\ NonNegative(all_in_transactions[k].crypto_fee)
    /\ \A k \in 1..Len(all_out_transactions) :
          /\ NonNegative(all_out_transactions[k].crypto_out_no_fee)
          /\ NonNegative(all_out_transactions[k].crypto_fee)
          /\ NonNegative(all_out_transactions[k].crypto_out_with_fee)

\* a row whose amount is parsed whatever else its group holds
AlwaysParsed(rec) ==
    rec.Operation \in {"Binance Convert", "Deposit", "Withdraw"}

\* C4: when the classification of a group fails on a non-numeric amount, the
\* run aborts with no ledger written: the three ledgers are written, together,
\* only after the rebranding pass and the classification of every group have
\* completed without error.
C4_NoLedgerAfterFailure ==
    /\ pc = "aborted" => ~Written
    /\ Written =>
          /\ pc = "done"
          /\ DOMAIN files = {InFile, OutFile, IntraFile}
          /\ next_group = Len(grouped_transactions) + 1
          /\ ~process_rebranding_pairs(swap_records, distribution_records).raised
          /\ \A g \in 1..Len(grouped_transactions) :
                ~process_transaction_group(grouped_transactions[g].group).raised
          /\ \A i \in 1..Len(records) :
                AlwaysParsed(records[i]) => ~FloatRaises(records[i].Change)
    /\ pc # "done" => ~Written

\* A run that aborted in a later group, after an earlier group had already
\* produced records.
C4_Witness ==
    /\ pc = "aborted"
    /\ next_group > 1
    /\ all_intra_transactions # <<>>
    /\ ~Written

Recognized ==
    {"Binance Convert", "Deposit", "Withdraw", "Transaction Buy",
     "Transaction Sold"}

\* the group of index g was classified, and its classification did not raise
Classified(g) == pc \in {"loop", "done", "aborted"} /\ g < next_group

\* the classification of the group of index g raised
ClassificationFailed(g) == pc = "aborted" /\ next_group = g

\* the records of a list emitted for the group of timestamp t
OfGroup(ledger, t) ==
    SelectSeq(ledger, LAMBDA r : r.timestamp = IsoTimestamp(t))

\* C5: a non-empty group with no Binance Convert, Deposit, Withdraw,
\* Transaction Buy or Transaction Sold row is classified without an error and
\* yields no in, out or intra record, whatever its assets, amounts and remarks.
C5_UnrecognizedGroupYieldsNothing ==
    \A g \in 1..Len(grouped_transactions) :
        operation_types(grouped_transactions[g].group) \cap Recognized = {} =>
            /\ ~ClassificationFailed(g)
            /\ process_transaction_group(grouped_transactions[g].group) =
                  [raised |-> FALSE, in |-> <<>>, out |-> <<>>, intra |-> <<>>]
            /\ Classified(g) =>
                  /\ OfGroup(all_in_transactions, grouped_transactions[g].timestamp) = <<>>
                  /\ OfGroup(all_out_transactions, grouped_transactions[g].timestamp) = <<>>
                  /\ OfGroup(all_intra_transactions, grouped_transactions[g].timestamp) = <<>>

\* A finished run with a classified group of unrecognized kinds only that
\* holds a non-numeric amount, beside a group that produced a record.
C5_Witness ==
    /\ pc = "done"
    /\ all_in_transactions # <<>>
    /\ \E g \in 1..Len(grouped_transactions) :
          /\ operation_types(grouped_transactions[g].group) \cap Recognized = {}
          /\ \E i \in 1..Len(grouped_transactions[g].group) :
                FloatRaises(grouped_transactions[g].group[i].Change)

\* timestamps of the sequence recs in the order of their first appearance
FirstAppearance(recs) ==
    LET firsts == {i \in 1..Len(recs) :
                      \A j \in 1..(i - 1) : recs[j].UTC_Time # recs[i].UTC_Time}
        nth[k \in 1..Cardinality(firsts)] ==
            CHOOSE i \in firsts : Cardinality({j \in firsts : j < i}) = k - 1
    IN [k \in 1..Cardinality(firsts) |-> recs[nth[k]].UTC_Time]

\* the input without the rows of the rebranding pattern
Remaining ==
    SelectSeq(input, LAMBDA rec : ~IsSwap(rec) /\ ~IsEligibleDistribution(rec))

\* the result of the classifier on the rows of timestamp t, in source order
ResultAt(t) ==
    process_transaction_group(SelectSeq(Remaining, LAMBDA rec : rec.UTC_Time = t))

\* C6: the final intra sequence is the Rebranding Matcher's transfers followed
\* by each group's transfers, and the final in and out sequences are the
\* concatenations of each group's acquisitions and disposals, the groups taken
\* in the order of first appearance of their timestamp in the filtered rows.
C6_LedgersConcatenateGroupsInOrder ==
    Written =>
        LET order == FirstAppearance(Remaining)
            matched == process_rebranding_pairs(SelectSeq(input, IsSwap),
                           SelectSeq(input, IsEligibleDistribution)).intra
        IN /\ files[IntraFile] =
                 matched \o Concat([k \in 1..Len(order) |-> ResultAt(order[k]).intra])
           /\ files[InFile] = Concat([k \in 1..Len(order) |-> ResultAt(order[k]).in])
           /\ files[OutFile] = Concat([k \in 1..Len(order) |-> ResultAt(order[k]).out])

\* Ledgers written from a rebranding transfer and two groups, the later
\* timestamp appearing first, each group with a transfer of its own.
C6_Witness ==
    /\ Written
    /\ rebranding_intra_txs # <<>>
    /\ Len(grouped_transactions) = 2
    /\ grouped_transactions[1].timestamp = T2
    /\ grouped_transactions[2].timestamp = T1
    /\ Len(files[IntraFile]) = Len(rebranding_intra_txs) + 2

\* sum of a sequence of numbers
Sum(values) ==
    LET sum[i \in 0..Len(values)] ==
            IF i = 0 THEN 0 ELSE sum[i - 1] + values[i]
    IN sum[Len(values)]

\* first and last row of the group of the given operation kind
FirstOf(group, op) ==
    group[CHOOSE i \in 1..Len(group) :
            /\ group[i].Operation = op
            /\ \A j \in 1..(i - 1) : group[j].Operation # op]
LastOf(group, op) ==
    group[CHOOSE i \in 1..Len(group) :
            /\ group[i].Operation = op
            /\ \A j \in (i + 1)..Len(group) : group[j].Operation # op]

IsNegativeFee(rec) ==
    rec.Operation = "Transaction Fee" /\ Float(rec.Change) < 0

\* the records of the ledger that the Buy (Sold, Convert) pattern emitted
OfPattern(ledger, word) ==
    SelectSeq(ledger, LAMBDA r : r.notes # <<>> /\ Head(r.notes) = word)

\* C7: a group with a Transaction Buy row emits exactly one Acquisition for
\* the Buy pattern: its asset is that of the first Buy row, its crypto_in the
\* sum of the Buy amounts of that asset minus the fee, its crypto_fee the sum
\* of abs(amount) of the negative Transaction Fee rows of that asset, and its
\* fiat-in (before and after fee) the sum of abs(amount) of all Spend rows.
C7_BuyAggregation ==
    \A g \in 1..Len(grouped_transactions) :
        LET group == grouped_transactions[g].group
            bought == OfPattern(OfGroup(all_in_transactions,
                                        grouped_transactions[g].timestamp), "Bought")
            asset == FirstOf(group, "Transaction Buy").Coin
            buys == Sum([i \in 1..Len(group) |->
                      IF group[i].Operation = "Transaction Buy" /\ group[i].Coin = asset
                      THEN Float(group[i].Change) ELSE 0])
            fee == Sum([i \in 1..Len(group) |->
                      IF IsNegativeFee(group[i]) /\ group[i].Coin = asset
                      THEN Abs(Float(group[i].Change)) ELSE 0])
            spent == Sum([i \in 1..Len(group) |->
                      IF group[i].Operation = "Transaction Spend"
                      THEN Abs(Float(group[i].Change)) ELSE 0])
        IN (Classified(g) /\ "Transaction Buy" \in operation_types(group)) =>
              /\ Len(bought) = 1
              /\ bought[1].asset = asset
              /\ bought[1].crypto_in = Str(buys - fee)
              /\ bought[1].crypto_fee = Str(fee)
              /\ bought[1].fiat_in_no_fee = Str(spent)
              /\ bought[1].fiat_in_with_fee = Str(spent)

\* A classified group with two Buy rows of different assets, a negative Fee
\* row of each asset and a Spend row.
C7_Witness ==
    \E g \in 1..Len(grouped_transactions) :
        LET group == grouped_transactions[g].group
        IN /\ Classified(g)
           /\ \E i, j \in 1..Len(group) :
                 /\ group[i].Operation = "Transaction Buy"
                 /\ group[j].Operation = "Transaction Buy"
                 /\ group[i].Coin # group[j].Coin
           /\ \E i \in 1..Len(group) :
                 /\ group[i].Operation = "Transaction Fee"
                 /\ Float(group[i].Change) < 0
                 /\ group[i].Coin = FirstOf(group, "Transaction Buy").Coin
           /\ \E i \in 1..Len(group) : group[i].Operation = "Transaction Spend"

IsConvert(rec) == rec.Operation = "Binance Convert"

\* C9: each Binance Convert row is handled on its own by the sign of its
\* amount: amount > 0 gives exactly one Acquisition (crypto_in = amount, fee 0)
\* and no Disposal, amount < 0 gives exactly one Disposal (crypto_out =
\* abs(amount), fee 0) and no Acquisition, and the Convert pattern emits a
\* Disposal only for a row with amount < 0.
C9_ConvertBySign ==
    \A g \in 1..Len(grouped_transactions) :
        LET group == grouped_transactions[g].group
            t == grouped_transactions[g].timestamp
            acquired == OfPattern(OfGroup(all_in_transactions, t), "Converted")
            disposed == OfPattern(OfGroup(all_out_transactions, t), "Converted")
            positive == SelectSeq(group,
                            LAMBDA r : IsConvert(r) /\ Float(r.Change) > 0)
            negative == SelectSeq(group,
                            LAMBDA r : IsConvert(r) /\ Float(r.Change) < 0)
        IN Classified(g) =>
              /\ Len(acquired) = Len(positive)
              /\ \A k \in 1..Len(positive) :
                    /\ acquired[k].asset = positive[k].Coin
                    /\ acquired[k].crypto_in = Str(Float(positive[k].Change))
                    /\ acquired[k].crypto_fee = Str(0)
              /\ Len(disposed) = Len(negative)
              /\ \A k \in 1..Len(negative) :
                    /\ disposed[k].asset = negative[k].Coin
                    /\ disposed[k].crypto_out_no_fee = Str(Abs(Float(negative[k].Change)))
                    /\ disposed[k].crypto_out_with_fee = Str(Abs(Float(negative[k].Change)))
                    /\ disposed[k].crypto_fee = Str(0)

\* C10: when the remark of an eligible Distribution row contains " to " more
\* than once, the Rebranding Matcher does not fail: it takes the part before
\* the first " to " as the old asset and matches the swap rows against it.
C10_RepeatedSeparatorSplitsAtFirst ==
    LET swaps == SelectSeq(input, IsSwap)
        dists == SelectSeq(input, IsEligibleDistribution)
        repeated == {d \in 1..Len(dists) : Len(Split(dists[d].Remark)) > 2}
    IN (pc # "extract" /\ repeated # {}) =>
          /\ (\A k \in 1..Len(swaps) : ~FloatRaises(swaps[k].Change))
                => ~RebrandingFailed
          /\ RebrandingDone =>
                \A d \in repeated : \A k \in 1..Len(swaps) :
                    swaps[k].Coin = Split(dists[d].Remark)[1] =>
                        \E n \in 1..Len(rebranding_intra_txs) :
                            /\ rebranding_intra_txs[n].asset = swaps[k].Coin
                            /\ rebranding_intra_txs[n].timestamp =
                                  IsoTimestamp(swaps[k].UTC_Time)

\* C11: within a group each Transaction Fee row is counted into the fee of at
\* most one emitted record: in a group with both Transaction Buy and
\* Transaction Sold rows, no Fee row is added both to the Buy Acquisition's
\* crypto_fee (the rows of the bought asset) and to the Sold Disposal's
\* fiat_fee (the rows of the revenue asset), so the two fees together do not
\* exceed the fees of the group.
C11_FeeRowCountedOnce ==
    \A g \in 1..Len(grouped_transactions) :
        LET group == grouped_transactions[g].group
            t == grouped_transactions[g].timestamp
            bought == OfPattern(OfGroup(all_in_transactions, t), "Bought")
            sold == OfPattern(OfGroup(all_out_transactions, t), "Sold")
            fees == Sum([i \in 1..Len(group) |->
                      IF IsNegativeFee(group[i])
                      THEN Abs(Float(group[i].Change)) ELSE 0])
        IN (/\ Classified(g)
            /\ "Transaction Buy" \in operation_types(group)
            /\ "Transaction Sold" \in operation_types(group)) =>
              /\ \A i \in 1..Len(group) :
                    IsNegativeFee(group[i]) =>
                        ~(/\ group[i].Coin = bought[1].asset
                          /\ group[i].Coin = sold[1].fiat_ticker)
              /\ NumOf(bought[1].crypto_fee) + NumOf(sold[1].fiat_fee) <= fees

====
